---- MODULE Spec2Model ----
(***************************************************************************)
(* A model of the nova-reel-video-generator core:                          *)
(*   - ImageSelectionManager (src/image_selection_manager.py): the ordered  *)
(*     bounded selection of images;                                        *)
(*   - VideoGenerator (src/backend/video_generator.py) with the adapter     *)
(*     AWSBedrockClient (src/backend/aws_client.py): submit and poll of     *)
(*     generation jobs and the jobs.json job table;                        *)
(*   - AutoRefreshVideoApp.start_generation (src/app.py): the submit of     *)
(*     the current selection;                                              *)
(*   - check_status.py: a second process on the same jobs.json.            *)
(* Every method is one action; what a call returns, the arguments it was    *)
(* given and the external calls it made are kept in the variable ret.      *)
(***************************************************************************)
EXTENDS Integers, Sequences, FiniteSets, TLC

VARIABLES
    selected_images,   \* ImageSelectionManager.selected_images: list of paths
    selection_order,   \* ImageSelectionManager.selection_order: path -> rank
    next_order,        \* ImageSelectionManager.next_order
    active_jobs,       \* per VideoGenerator instance: session_id -> job_info
    jobs_file,         \* generated_videos/jobs.json
    invocations,       \* number of async invocations the provider has accepted
    now,               \* the wall clock that datetime.now() reads
    aliases,           \* the app's records whose "images" is the manager's own
                       \* list object self.selected_images, not a list of their own
    ui,                \* per browser tab: the refresh timer, the session_id
                       \* textbox and the status textbox; and the tab of the
                       \* last event
    ret                \* the last call: its name, arguments, result, external calls

vars == <<selected_images, selection_order, next_order, active_jobs, jobs_file,
          invocations, now, aliases, ui, ret>>

selVars == <<selected_images, selection_order, next_order>>

(***************************************************************************)
(* Bounds of the model.                                                    *)
(***************************************************************************)
\* the selectable image paths are 1..NumImages
NumImages == 4
\* capacity the manager is constructed with (3 in the self-test, 8 in the app)
max_selections == 3

Images == 1..NumImages

(***************************************************************************)
(* Helpers on Python lists and dicts.                                      *)
(***************************************************************************)
Range(s) == {s[i] : i \in DOMAIN s}

EmptyDict == [x \in {} |-> 0]

\* position of the first occurrence of x in list s (x occurs in s)
IndexOf(s, x) == CHOOSE i \in DOMAIN s : s[i] = x /\ \A j \in 1..(i - 1) : s[j] # x

\* list.remove(x): the list without the first occurrence of x
ListRemove(s, x) ==
    LET i == IndexOf(s, x)
    IN  [k \in 1..(Len(s) - 1) |-> IF k < i THEN s[k] ELSE s[k + 1]]

\* del d[x]
DictDel(d, x) == [k \in (DOMAIN d) \ {x} |-> d[k]]

\* d[x] = v
DictSet(d, x, v) == [k \in (DOMAIN d) \cup {x} |-> IF k = x THEN v ELSE d[k]]

(***************************************************************************)
(* ImageSelectionManager                                                   *)
(***************************************************************************)
SelInit ==
    /\ selected_images = <<>>
    /\ selection_order = EmptyDict
    /\ next_order = 1

\* a capacity test that is off by one
IsFullOffByOne(images) == Len(images) > max_selections

\* the capacity test of add_selection
IsFull(images) == Len(images) >= max_selections

\* a membership test that never finds the item
IsSelectedNever(order, image_path) == FALSE

\* the test "image_path in self.selection_order"
IsSelected(order, image_path) == image_path \in DOMAIN order

\* a removal that leaves the ranks as they are
RenumberNone(images, order, removed_order) == order

\* a removal that moves every remaining rank down
RenumberAll(images, order, removed_order) == [p \in DOMAIN order |-> order[p] - 1]

\* the renumbering loop of remove_selection, run on the list and the dict
\* that are left once the removed item is gone
Renumber(images, order, removed_order) ==
    [p \in DOMAIN order |->
        IF p \in Range(images) /\ order[p] > removed_order
        THEN order[p] - 1
        ELSE order[p]]

\* an add that puts the item at the front of the list
add_selection_AtFront(image_path) ==
    IF IsFull(selected_images)
    THEN /\ ret' = [op |-> "add_selection", arg |-> image_path,
                    ok |-> FALSE, msg |-> "CapacityExceeded"]
         /\ UNCHANGED selVars
    ELSE IF IsSelected(selection_order, image_path)
    THEN /\ ret' = [op |-> "add_selection", arg |-> image_path,
                    ok |-> FALSE, msg |-> "AlreadySelected"]
         /\ UNCHANGED selVars
    ELSE /\ selected_images' = <<image_path>> \o selected_images
         /\ selection_order' = DictSet(selection_order, image_path, next_order)
         /\ next_order' = next_order + 1
         /\ ret' = [op |-> "add_selection", arg |-> image_path,
                    ok |-> TRUE, msg |-> "Selected", n |-> next_order,
                    before |-> <<selected_images, selection_order, next_order>>]

add_selection(image_path) ==
    IF IsFull(selected_images)
    THEN /\ ret' = [op |-> "add_selection", arg |-> image_path,
                    ok |-> FALSE, msg |-> "CapacityExceeded"]
         /\ UNCHANGED selVars
    ELSE IF IsSelected(selection_order, image_path)
    THEN /\ ret' = [op |-> "add_selection", arg |-> image_path,
                    ok |-> FALSE, msg |-> "AlreadySelected"]
         /\ UNCHANGED selVars
    ELSE /\ selected_images' = Append(selected_images, image_path)
         /\ selection_order' = DictSet(selection_order, image_path, next_order)
         /\ next_order' = next_order + 1
         /\ ret' = [op |-> "add_selection", arg |-> image_path,
                    ok |-> TRUE, msg |-> "Selected", n |-> next_order,
                    before |-> <<selected_images, selection_order, next_order>>]

\* a removal without the test for the item: the lookup of its rank raises
\* KeyError, which the method's except turns into its general error
remove_selection_NoTest(image_path) ==
    IF ~IsSelected(selection_order, image_path)
    THEN /\ ret' = [op |-> "remove_selection", arg |-> image_path,
                    ok |-> FALSE, msg |-> "RemoveError"]
         /\ UNCHANGED selVars
    ELSE LET removed_order == selection_order[image_path]
             images == ListRemove(selected_images, image_path)
             order == DictDel(selection_order, image_path)
         IN  /\ selected_images' = images
             /\ selection_order' = Renumber(images, order, removed_order)
             /\ next_order' = Len(images) + 1
             /\ ret' = [op |-> "remove_selection", arg |-> image_path,
                        ok |-> TRUE, msg |-> "Removed", n |-> Len(images)]

\* a removal that leaves next_order as it is
remove_selection_KeepsCounter(image_path) ==
    IF ~IsSelected(selection_order, image_path)
    THEN /\ ret' = [op |-> "remove_selection", arg |-> image_path,
                    ok |-> FALSE, msg |-> "NotSelected"]
         /\ UNCHANGED selVars
    ELSE LET removed_order == selection_order[image_path]
             images == ListRemove(selected_images, image_path)
             order == DictDel(selection_order, image_path)
         IN  /\ selected_images' = images
             /\ selection_order' = Renumber(images, order, removed_order)
             /\ next_order' = next_order
             /\ ret' = [op |-> "remove_selection", arg |-> image_path,
                        ok |-> TRUE, msg |-> "Removed", n |-> Len(images)]

remove_selection(image_path) ==
    IF ~IsSelected(selection_order, image_path)
    THEN /\ ret' = [op |-> "remove_selection", arg |-> image_path,
                    ok |-> FALSE, msg |-> "NotSelected"]
         /\ UNCHANGED selVars
    ELSE LET removed_order == selection_order[image_path]
             images == ListRemove(selected_images, image_path)
             order == DictDel(selection_order, image_path)
         IN  /\ selected_images' = images
             /\ selection_order' = Renumber(images, order, removed_order)
             /\ next_order' = Len(images) + 1
             /\ ret' = [op |-> "remove_selection", arg |-> image_path,
                        ok |-> TRUE, msg |-> "Removed", n |-> Len(images)]

\* a clear that leaves next_order as it is
clear_all_KeepsCounter ==
    /\ selected_images' = <<>>
    /\ selection_order' = EmptyDict
    /\ next_order' = next_order
    /\ ret' = [op |-> "clear_all", ok |-> TRUE, msg |-> "Cleared",
               n |-> Len(selected_images)]

clear_all ==
    /\ selected_images' = <<>>
    /\ selection_order' = EmptyDict
    /\ next_order' = 1
    /\ ret' = [op |-> "clear_all", ok |-> TRUE, msg |-> "Cleared",
               n |-> Len(selected_images)]

\* a method that hands out the list object itself
SameList(l) == [items |-> l, shared |-> TRUE]

\* list.copy(): a new list object with the same items
ListCopy(l) == [items |-> l, shared |-> FALSE]

get_ordered_images == ListCopy(selected_images)

\* append, remove and clear change the list object in place: whoever holds
\* that object sees the new items
InPlace ==
    /\ active_jobs' =
          [active_jobs EXCEPT !["app"] =
              [sid \in DOMAIN @ |->
                  IF sid \in aliases
                  THEN [@[sid] EXCEPT !.images = selected_images']
                  ELSE @[sid]]]
    /\ UNCHANGED <<jobs_file, invocations, now, aliases>>

AddSelection == \E p \in Images : add_selection(p) /\ InPlace /\ UNCHANGED ui
RemoveSelection ==
    \E p \in Images : remove_selection(p) /\ InPlace /\ UNCHANGED ui
ClearAll == clear_all /\ InPlace /\ UNCHANGED ui

(***************************************************************************)
(* VideoGenerator and AWSBedrockClient                                     *)
(***************************************************************************)
\* provider shot ceiling tested by start_async_video_generation
MaxShots == 8
\* image files that exist are 1..NumFiles; path 0 does not exist
NumFiles == 2
\* number of invocations the provider accepts in a run
MaxJobs == 2
\* last value of the clock
MaxTime == 1

Generators == {"app", "cli"}
SessionIds == {"s1", "s2"}
Styles == {"documentary"}
Categories == {"nature"}

\* os.path.exists(img_path)
path_exists(p) == p \in 1..NumFiles

\* a list of n copies of p
Rep(p, n) == [i \in 1..n |-> p]

\* the image lists a submit is given
RequestImages ==
    {<<>>, <<1, 2>>, <<1, 0>>, Rep(1, MaxShots), Rep(1, MaxShots + 1)}

\* a load that ignores the file
LoadNothing(file) == EmptyDict

\* _load_jobs: the table of a readable jobs.json, otherwise {}
_load_jobs(file) == IF file.kind = "json" THEN file.jobs ELSE EmptyDict

\* _save_jobs: open(jobs_file, 'w') and json.dump; any exception is logged and
\* swallowed. save is what the file system does: "ok", "open_failed" (the file
\* is not touched) or "write_failed" (the file was truncated by open and the
\* dump broke off)
_save_jobs(file, jobs, save) ==
    CASE save = "ok" -> [kind |-> "json", jobs |-> jobs]
      [] save = "open_failed" -> file
      [] OTHER -> [kind |-> "corrupt"]

SaveOutcomes == {"ok", "open_failed", "write_failed"}

\* where the process can be killed inside _save_jobs: before open(), between
\* open() (which truncates the file) and the end of the dump, or with the
\* dump on disk
CrashPoints == {"before_open", "after_open", "after_dump"}

\* jobs.json as the killed process leaves it
CrashedFile(file, jobs, point) ==
    CASE point = "before_open" -> file
      [] point = "after_open" -> [kind |-> "corrupt"]
      [] OTHER -> [kind |-> "json", jobs |-> jobs]

(***************************************************************************)
(* AWSBedrockClient.call_claude_sonnet                                     *)
(* llm is what the model call gives: [kind |-> "raise"] (invoke_model or    *)
(* the reading of its body raised), [kind |-> "text"] (no JSON array in     *)
(* the text, or a description without "text": the single-shot fallback), or *)
(* [kind |-> "json", idx |-> the image_index of each description].          *)
(* A shot is modelled by the image it carries.                             *)
(***************************************************************************)
\* Python's images[k] for a 0-based k that may be negative
PyIndex(images, k) == IF k >= 0 THEN images[k + 1] ELSE images[Len(images) + k + 1]

\* the loop "for i, shot_desc in enumerate(shot_descriptions)"
RECURSIVE BuildShots(_, _, _)
BuildShots(images, idx, i) ==
    IF i > Len(idx) THEN <<>>
    ELSE LET rest == BuildShots(images, idx, i + 1)
         IN  IF (i - 1) < Len(images) /\ idx[i] < Len(images)
             THEN <<PyIndex(images, idx[i])>> \o rest
             ELSE rest

\* images[image_index] raises IndexError below -len(images)
IndexRaises(images, idx) ==
    \E i \in DOMAIN idx : (i - 1) < Len(images) /\ idx[i] < 0 - Len(images)

call_claude_sonnet(images, llm) ==
    CASE llm.kind = "raise" -> [raised |-> TRUE, shots |-> <<>>]
      [] llm.kind = "text" -> [raised |-> FALSE, shots |-> <<images[1]>>]
      [] OTHER ->
            IF IndexRaises(images, llm.idx)
            THEN [raised |-> TRUE, shots |-> <<>>]
            ELSE [raised |-> FALSE, shots |-> BuildShots(images, llm.idx, 1)]

\* the descriptions the prompt asks for: one per image, image_index 0..n-1
IdentityIdx(n) == [i \in 1..n |-> i - 1]

\* the image_index lists a JSON answer can carry: env.llm_idx = "asked" gives
\* the answer the prompt asks for, "any" every list of one integer per image
\* from below -len(images) up to len(images)
IndexLists(env, images) ==
    IF env.llm_idx = "asked"
    THEN {IdentityIdx(Len(images))}
    ELSE [1..Len(images) -> (0 - Len(images) - 1)..Len(images)]

LLMResponses(env, images) ==
    {r \in {[kind |-> "raise"], [kind |-> "text"]} \cup
            {[kind |-> "json", idx |-> idx] : idx \in IndexLists(env, images)} :
        r.kind \in env.llm_kinds}

(***************************************************************************)
(* VideoGenerator.start_async_video_generation                             *)
(***************************************************************************)
\* a validation that does not look for the files
ValidateImagesNoExists(images) ==
    IF Len(images) = 0 THEN "NoImages"
    ELSE IF Len(images) > MaxShots THEN "TooManyImages"
    ELSE "ok"

\* the input validation: the exception raised, or "ok"
ValidateImages(images) ==
    IF Len(images) = 0 THEN "NoImages"
    ELSE IF Len(images) > MaxShots THEN "TooManyImages"
    ELSE IF \E i \in DOMAIN images : ~path_exists(images[i]) THEN "FileNotFound"
    ELSE "ok"

\* the job_info dict (images_count, shots_count and generation_type follow
\* from images and shots and are left out)
JobInfo(session_id, job_id, images, style, category, shots) ==
    [session_id |-> session_id, job_id |-> job_id, status |-> "started",
     created_at |-> now, images |-> images, style |-> style,
     category |-> category, shots |-> shots]

StartCall(g, images, style, category) ==
    [op |-> "start_async_video_generation", g |-> g, images |-> images,
     style |-> style, category |-> category]

\* r with the fields of extra added
With(r, extra) ==
    [k \in (DOMAIN r) \cup (DOMAIN extra) |->
        IF k \in DOMAIN extra THEN extra[k] ELSE r[k]]

\* the provider accepts a submission only while it has capacity left
NovaOutcomes == IF invocations < MaxJobs THEN {"ok", "raise"} ELSE {"raise"}

\* the process of generator g is killed inside _save_jobs while it stores the
\* table jobs, and is started again: __init__ loads what is on disk
Killed(g, call, jobs, point) ==
    LET file == CrashedFile(jobs_file, jobs, point)
    IN  /\ jobs_file' = file
        /\ active_jobs' = [active_jobs EXCEPT ![g] = _load_jobs(file)]
        /\ ret' = [op |-> "killed_in_save", g |-> g, during |-> call.op,
                   storing |-> jobs, point |-> point]

\* steps 6 and 7: uuid is uuid4().hex[:8], save is what _save_jobs meets
StoreJob(g, call, images, style, category, shots, uuid, save) ==
    LET job_id == invocations + 1
        jobs == DictSet(active_jobs[g], uuid,
                        JobInfo(uuid, job_id, images, style, category, shots))
    IN  /\ invocations' = job_id
        /\ IF save \in CrashPoints
           THEN Killed(g, call, jobs, save)
           ELSE /\ active_jobs' = [active_jobs EXCEPT ![g] = jobs]
                /\ jobs_file' = _save_jobs(jobs_file, jobs, save)
                /\ ret' = With(call, [status |-> "success", session_id |-> uuid,
                                      job_id |-> job_id,
                                      shots_count |-> Len(shots), save |-> save,
                                      calls |-> <<"call_claude_sonnet",
                                                  "start_async_nova_reel">>])

\* a submit that stores the record before it asks the provider
StartNovaReelStoreFirst(g, env, call, images, style, category, shots) ==
    \E nova \in NovaOutcomes, uuid \in env.uuids, save \in env.saves :
        IF nova = "raise"
        THEN LET jobs == DictSet(active_jobs[g], uuid,
                                 JobInfo(uuid, 0, images, style, category, shots))
             IN  /\ active_jobs' = [active_jobs EXCEPT ![g] = jobs]
                 /\ jobs_file' = _save_jobs(jobs_file, jobs, save)
                 /\ invocations' = invocations
                 /\ ret' = With(call, [status |-> "error",
                                       error |-> "NovaReelFailed", nova |-> nova,
                                       calls |-> <<"call_claude_sonnet",
                                                   "start_async_nova_reel">>])
        ELSE StoreJob(g, With(call, [nova |-> nova]), images, style, category,
                      shots, uuid, save)

\* step 2: nova is what start_async_invoke does
StartNovaReel(g, env, call, images, style, category, shots) ==
    \E nova \in NovaOutcomes :
        IF nova = "raise"
        THEN /\ ret' = With(call, [status |-> "error", error |-> "NovaReelFailed",
                                   nova |-> nova,
                                   calls |-> <<"call_claude_sonnet",
                                               "start_async_nova_reel">>])
             /\ UNCHANGED <<active_jobs, jobs_file, invocations>>
        ELSE \E uuid \in env.uuids, save \in env.saves :
                StoreJob(g, With(call, [nova |-> nova]), images, style, category,
                         shots, uuid, save)

start_async_video_generation(g, env, images, style, category) ==
    LET call == StartCall(g, images, style, category)
        invalid == ValidateImages(images)
    IN  IF invalid # "ok"
        THEN /\ ret' = With(call, [status |-> "error", error |-> invalid,
                                   calls |-> <<>>])
             /\ UNCHANGED <<active_jobs, jobs_file, invocations>>
        ELSE \E llm \in LLMResponses(env, images) :
                LET claude == call_claude_sonnet(images, llm)
                IN  IF claude.raised
                    THEN /\ ret' = With(call, [status |-> "error",
                                               error |-> "ClaudeFailed",
                                               llm |-> llm,
                                               calls |-> <<"call_claude_sonnet">>])
                         /\ UNCHANGED <<active_jobs, jobs_file, invocations>>
                    ELSE StartNovaReel(g, env, With(call, [llm |-> llm]), images,
                                       style, category, claude.shots)

(***************************************************************************)
(* AWSBedrockClient.get_async_nova_reel_result and _download_from_s3       *)
(* resp is what get_async_invoke gives: [status |-> "raise"] (the call      *)
(* raised), or the response with its status; a Completed response has an    *)
(* output location (s3_uri, with the objects listed under it) or none, and  *)
(* may carry the video inline.                                             *)
(***************************************************************************)
\* obj_key.endswith('.mp4')
EndsWithMp4(name) == name \in {"output.mp4", "clip.mp4", "video.mp4"}

\* a scan that keeps the last object ending with .mp4
RECURSIVE LastMp4(_, _)
LastMp4(objects, i) ==
    IF i > Len(objects) THEN 0
    ELSE LET later == LastMp4(objects, i + 1)
         IN  IF later > 0 THEN later
             ELSE IF EndsWithMp4(objects[i]) THEN i ELSE 0

\* the first object of the listing that ends with .mp4, 0 if there is none
RECURSIVE FirstMp4(_, _)
FirstMp4(objects, i) ==
    IF i > Len(objects) THEN 0
    ELSE IF EndsWithMp4(objects[i]) THEN i
    ELSE FirstMp4(objects, i + 1)

_download_from_s3(objects) ==
    IF "output.mp4" \in Range(objects)
    THEN [raised |-> FALSE, data |-> "output.mp4",
          calls |-> <<"s3_get_object">>]
    ELSE IF objects = <<>>
    THEN [raised |-> TRUE, data |-> "", error |-> "NoFilesFound",
          calls |-> <<"s3_get_object", "s3_list_objects">>]
    ELSE LET i == FirstMp4(objects, 1)
         IN  IF i > 0
             THEN [raised |-> FALSE, data |-> objects[i],
                   calls |-> <<"s3_get_object", "s3_list_objects", "s3_get_object">>]
             ELSE [raised |-> TRUE, data |-> "", error |-> "NoVideoFile",
                   calls |-> <<"s3_get_object", "s3_list_objects">>]

\* a Completed branch that takes a failed download for a failed job
CompletedResultFailsJob(resp) ==
    IF resp.s3_uri
    THEN LET dl == _download_from_s3(resp.objects)
         IN  IF dl.raised
             THEN [status |-> "failed", message |-> dl.error,
                   calls |-> <<"get_async_invoke">> \o dl.calls]
             ELSE [status |-> "completed", message |-> "GenerationComplete",
                   video_data |-> dl.data,
                   calls |-> <<"get_async_invoke">> \o dl.calls]
    ELSE IF resp.inline
    THEN [status |-> "completed", message |-> "GenerationComplete",
          video_data |-> "inline", calls |-> <<"get_async_invoke">>]
    ELSE [status |-> "failed", message |-> "NoVideoData",
          calls |-> <<"get_async_invoke">>]

\* the branch "status == 'Completed'": an exception of _download_from_s3 is
\* caught by the method's own except and becomes the result 'error'
CompletedResult(resp) ==
    IF resp.s3_uri
    THEN LET dl == _download_from_s3(resp.objects)
         IN  IF dl.raised
             THEN [status |-> "error", message |-> dl.error,
                   calls |-> <<"get_async_invoke">> \o dl.calls]
             ELSE [status |-> "completed", message |-> "GenerationComplete",
                   video_data |-> dl.data,
                   calls |-> <<"get_async_invoke">> \o dl.calls]
    ELSE IF resp.inline
    THEN [status |-> "completed", message |-> "GenerationComplete",
          video_data |-> "inline", calls |-> <<"get_async_invoke">>]
    ELSE [status |-> "error", message |-> "NoVideoData",
          calls |-> <<"get_async_invoke">>]

\* a result in which a status that is not recognised counts as a failed job
get_async_nova_reel_result_UnknownFails(resp) ==
    CASE resp.status = "raise" ->
            [status |-> "failed", message |-> "GetResultError",
             calls |-> <<"get_async_invoke">>]
      [] resp.status = "Completed" -> CompletedResult(resp)
      [] resp.status = "InProgress" ->
            [status |-> "in_progress", message |-> "Generating",
             calls |-> <<"get_async_invoke">>]
      [] OTHER ->
            [status |-> "failed", message |-> "GenerationFailed",
             calls |-> <<"get_async_invoke">>]

get_async_nova_reel_result(resp) ==
    CASE resp.status = "raise" ->
            [status |-> "error", message |-> "GetResultError",
             calls |-> <<"get_async_invoke">>]
      [] resp.status = "Completed" -> CompletedResult(resp)
      [] resp.status = "InProgress" ->
            [status |-> "in_progress", message |-> "Generating",
             calls |-> <<"get_async_invoke">>]
      [] resp.status = "Failed" ->
            [status |-> "failed", message |-> "GenerationFailed",
             calls |-> <<"get_async_invoke">>]
      [] OTHER ->
            [status |-> "unknown", message |-> "UnknownStatus",
             calls |-> <<"get_async_invoke">>]

S3Listings == {<<"output.mp4">>, <<>>, <<"manifest.json">>,
               <<"manifest.json", "clip.mp4">>}

ProviderResponses ==
    {[status |-> "raise"], [status |-> "InProgress"], [status |-> "Failed"],
     [status |-> "Submitted"]}
    \cup {[status |-> "Completed", s3_uri |-> TRUE, objects |-> o, inline |-> FALSE] :
            o \in S3Listings}
    \cup {[status |-> "Completed", s3_uri |-> FALSE, objects |-> <<>>, inline |-> i] :
            i \in BOOLEAN}

(***************************************************************************)
(* VideoGenerator.check_async_video_status                                 *)
(***************************************************************************)
\* video_{session_id}_{%Y%m%d_%H%M%S}.mp4 under output_dir
VideoPath(session_id, t) == [sid |-> session_id, ts |-> t]

CheckCall(g, session_id) ==
    [op |-> "check_async_video_status", g |-> g, session_id |-> session_id]

WriteOutcomes == {"ok", "fail"}

\* a poll that answers without storing what it learned
UpdateJob_NoStore(g, env, session_id, info, result) ==
    \E save \in env.saves :
        /\ ret' = With(result, [save |-> save])
        /\ UNCHANGED <<active_jobs, jobs_file>>

\* an update that keeps only the record of the polled session
UpdateJob_OnlyPolled(g, env, session_id, info, result) ==
    \E save \in env.saves :
        LET jobs == DictSet(EmptyDict, session_id, info)
        IN  IF save \in CrashPoints
            THEN Killed(g, result, jobs, save)
            ELSE /\ active_jobs' = [active_jobs EXCEPT ![g] = jobs]
                 /\ jobs_file' = _save_jobs(jobs_file, jobs, save)
                 /\ ret' = With(result, [save |-> save])

\* the dict is updated in place and the table saved
UpdateJob(g, env, session_id, info, result) ==
    \E save \in env.saves :
        LET jobs == DictSet(active_jobs[g], session_id, info)
        IN  IF save \in CrashPoints
            THEN Killed(g, result, jobs, save)
            ELSE /\ active_jobs' = [active_jobs EXCEPT ![g] = jobs]
                 /\ jobs_file' = _save_jobs(jobs_file, jobs, save)
                 /\ ret' = With(result, [save |-> save])

\* the branch of a known session: the provider is asked with the stored job_id
CheckKnown(g, env, session_id, resp) ==
    LET job_info == active_jobs[g][session_id]
        result == get_async_nova_reel_result(resp)
        call == With(CheckCall(g, session_id),
                     [resp |-> resp, job_id |-> job_info.job_id,
                      was |-> job_info.status])
    IN  CASE result.status = "completed" ->
                \E write \in env.writes :
                    IF write = "fail"
                    THEN /\ ret' = With(call,
                                     [status |-> "error", message |-> "CheckError",
                                      write |-> write,
                                      calls |-> result.calls \o <<"write_video">>])
                         /\ UNCHANGED <<active_jobs, jobs_file>>
                    ELSE LET video_path == VideoPath(session_id, now)
                         IN  UpdateJob(g, env, session_id,
                                 With(job_info, [status |-> "completed",
                                                 completed_at |-> now,
                                                 video_path |-> video_path]),
                                 With(call, [status |-> "completed",
                                             message |-> "GenerationComplete",
                                             video_path |-> video_path,
                                             video_data |-> result.video_data,
                                             write |-> write,
                                             calls |-> result.calls \o <<"write_video">>]))
          [] result.status = "in_progress" ->
                UpdateJob(g, env, session_id,
                    With(job_info, [status |-> "in_progress"]),
                    With(call, [status |-> "in_progress", message |-> result.message,
                                calls |-> result.calls]))
          [] result.status = "failed" ->
                UpdateJob(g, env, session_id,
                    With(job_info, [status |-> "failed",
                                    error_message |-> result.message]),
                    With(call, [status |-> "failed", message |-> result.message,
                                calls |-> result.calls]))
          [] OTHER ->
                /\ ret' = With(call, [status |-> "unknown",
                                      message |-> result.message,
                                      calls |-> result.calls])
                /\ UNCHANGED <<active_jobs, jobs_file>>

\* a poll without the test for the session: the lookup raises KeyError,
\* which the method's except turns into its general error
check_async_video_status_NoGuard(g, env, session_id) ==
    IF session_id \notin DOMAIN active_jobs[g]
    THEN /\ ret' = With(CheckCall(g, session_id),
                        [status |-> "error", message |-> "CheckError",
                         calls |-> <<>>])
         /\ UNCHANGED <<active_jobs, jobs_file>>
    ELSE \E resp \in env.responses : CheckKnown(g, env, session_id, resp)

check_async_video_status(g, env, session_id) ==
    IF session_id \notin DOMAIN active_jobs[g]
    THEN /\ ret' = With(CheckCall(g, session_id),
                        [status |-> "error", message |-> "UnknownSession",
                         calls |-> <<>>])
         /\ UNCHANGED <<active_jobs, jobs_file>>
    ELSE \E resp \in env.responses : CheckKnown(g, env, session_id, resp)

(***************************************************************************)
(* The actions of the job orchestrator                                     *)
(***************************************************************************)
JobInit ==
    /\ active_jobs = [g \in Generators |-> EmptyDict]
    /\ jobs_file = [kind |-> "missing"]
    /\ invocations = 0
    /\ now = 0

\* which records of the app hold the manager's list once the call r of
\* generator g is over: a stored record holds the list it was given (shared
\* says whether that is the manager's), and a new process holds none
AliasesAfter(g, r, shared) ==
    IF g # "app" THEN aliases
    ELSE IF r.op \in {"killed_in_save", "__init__"} THEN {}
    ELSE IF r.op = "start_async_video_generation" /\ r.status = "success"
         THEN IF shared THEN aliases \cup {r.session_id}
              ELSE aliases \ {r.session_id}
    ELSE aliases

\* a submit with a list made by the caller
StartGeneration(g, env) ==
    \E images \in env.requests, style \in Styles, category \in Categories :
        /\ start_async_video_generation(g, env, images, style, category)
        /\ aliases' = AliasesAfter(g, ret', FALSE)
        /\ UNCHANGED <<selVars, now, ui>>

CheckStatus(g, env) ==
    \E session_id \in SessionIds :
        /\ check_async_video_status(g, env, session_id)
        /\ aliases' = AliasesAfter(g, ret', FALSE)
        /\ UNCHANGED <<selVars, invocations, now, ui>>

(***************************************************************************)
(* AutoRefreshVideoApp.start_generation: the submit of the current          *)
(* selection (every image belongs to the one category of the model)         *)
(***************************************************************************)
\* the rank of every selected image is its position in the list
validate_selection_consistency ==
    \A i \in DOMAIN selected_images :
        /\ selected_images[i] \in DOMAIN selection_order
        /\ selection_order[selected_images[i]] = i

start_generation(env, style, category) ==
    LET selected == get_ordered_images
        refused(why) ==
            /\ ret' = [op |-> "start_generation", status |-> "error",
                       error |-> why]
            /\ UNCHANGED <<active_jobs, jobs_file, invocations, aliases>>
    IN  IF ~validate_selection_consistency THEN refused("Inconsistent")
        ELSE IF Len(selected.items) = 0 THEN refused("NoImages")
        ELSE IF Len(selected.items) > MaxShots THEN refused("TooManyImages")
        ELSE /\ start_async_video_generation("app", env, selected.items,
                                              style, category)
             /\ aliases' = AliasesAfter("app", ret', selected.shared)

AppStartGeneration(env) ==
    \E style \in Styles, category \in Categories :
        /\ start_generation(env, style, category)
        /\ UNCHANGED <<selVars, now, ui>>

\* a constructor that keeps the table in memory when jobs.json cannot be read
Restart_KeepsTable(g) ==
    /\ active_jobs' = [active_jobs EXCEPT
                          ![g] = IF jobs_file.kind = "json" THEN jobs_file.jobs ELSE @]
    /\ ret' = [op |-> "__init__", g |-> g]
    /\ aliases' = AliasesAfter(g, ret', FALSE)
    /\ UNCHANGED <<selVars, jobs_file, invocations, now, ui>>

\* VideoGenerator.__init__ of a new process: the table is read from jobs.json
Restart(g) ==
    /\ active_jobs' = [active_jobs EXCEPT ![g] = _load_jobs(jobs_file)]
    /\ ret' = [op |-> "__init__", g |-> g]
    /\ aliases' = AliasesAfter(g, ret', FALSE)
    /\ UNCHANGED <<selVars, jobs_file, invocations, now, ui>>

\* time passes
Tick ==
    /\ now < MaxTime
    /\ now' = now + 1
    /\ ret' = [op |-> "tick"]
    /\ UNCHANGED <<selVars, active_jobs, jobs_file, invocations, aliases, ui>>

(***************************************************************************)
(* Specifications                                                          *)
(***************************************************************************)
(***************************************************************************)
(* The Gradio interface of AutoRefreshVideoApp.create_interface. Every      *)
(* browser tab has its own component values (the refresh timer, the         *)
(* session_id textbox, the status textbox); all tabs are served by the one  *)
(* AutoRefreshVideoApp object, whose selection_manager and video_generator  *)
(* are made once in __init__. A text is the list of its words, written in  *)
(* pinyin, so that "x in status" is the search for a run of words.         *)
(***************************************************************************)
Contexts == {"tab1", "tab2"}

\* Python's "pat in text"
Contains(text, pat) ==
    \E i \in 0..(Len(text) - Len(pat)) : SubSeq(text, i + 1, i + Len(pat)) = pat

\* the message of a result, as the backend words it
MessageText(message) ==
    CASE message = "Generating" -> <<"shipin", "zhengzai", "shengcheng", "zhong">>
      [] message = "GenerationFailed" ->
            <<"shipin", "shengcheng", "shibai", ":", "failureMessage">>
      [] message = "UnknownStatus" -> <<"weizhi zhuangtai", ":", "status">>
      [] message = "NoVideoData" -> <<"wufa huoqu", "shengcheng", "de shipin shuju">>
      [] message = "UnknownSession" -> <<"wei zhaodao duiying de", "shengcheng", "renwu">>
      [] message = "CheckError" ->
            <<"jiancha", "shengcheng", "zhuangtai shi chucuo", ":", "exception">>
      [] OTHER -> <<"huoqu", "shengcheng", "jieguo shi chucuo", ":", "exception">>

\* the first output of AutoRefreshVideoApp.check_status for the result r
StatusText(r) ==
    CASE r.status = "completed" -> <<"(party)", "shipin", "shengcheng", "wancheng", "!">>
      [] r.status = "in_progress" -> <<"(hourglass)">> \o MessageText(r.message)
      [] r.status = "failed" -> <<"(cross)">> \o MessageText(r.message)
      [] OTHER -> <<"(question)", "zhuangtai weizhi", ":">> \o MessageText(r.message)

\* the first two outputs of AutoRefreshVideoApp.start_generation
StartOutputs(r) ==
    IF r.op = "start_async_video_generation" /\ r.status = "success"
    THEN [status_display |-> <<"(rocket)", "shipin", "shengcheng", "yi qidong">>,
          session_id_state |-> r.session_id]
    ELSE IF r.op = "start_async_video_generation"
    THEN [status_display |-> <<"(cross)", "qidong duo jingtou", "shipin", "shengcheng", "shibai", ":",
                               "exception">>,
          session_id_state |-> ""]
    ELSE [status_display |-> <<"(cross)", r.error>>, session_id_state |-> ""]

\* a timer that goes on after a failed job is shown
TimerStaysActive_NoFailedTest(status) ==
    /\ ~Contains(status, <<"shengcheng", "wancheng">>)
    /\ ~Contains(status, <<"zidong shuaxin yi tingzhi">>)
    /\ ~Contains(status, <<"meiyou", "zhengzai", "jinxing de", "shengcheng", "renwu">>)

\* the last step of the tick chain: gr.update(active=...) from the status text
TimerStaysActive(status) ==
    /\ ~Contains(status, <<"shengcheng", "wancheng">>)
    /\ ~Contains(status, <<"shengcheng", "shibai">>)
    /\ ~Contains(status, <<"zidong shuaxin yi tingzhi">>)
    /\ ~Contains(status, <<"meiyou", "zhengzai", "jinxing de", "shengcheng", "renwu">>)

\* handle_image_click_with_feedback: a click selects the image or takes it
\* out of the selection
handle_image_click(image_path) ==
    IF IsSelected(selection_order, image_path)
    THEN remove_selection(image_path)
    ELSE add_selection(image_path)

\* a click on the button of image p in tab c
ImageClickOn(c, p) ==
    /\ handle_image_click(p)
    /\ InPlace
    /\ ui' = [ui EXCEPT !.ctx = c]

\* a click on an image button in tab c
ImageClick(c) == \E p \in Images : ImageClickOn(c, p)

\* category_radio.change in tab c: update_image_display clears the selection
CategoryChange(c) ==
    /\ clear_all
    /\ InPlace
    /\ ui' = [ui EXCEPT !.ctx = c]

\* start_btn.click in tab c and the step chained to it, which sets the timer
StartClick(c, env) ==
    \E style \in Styles, category \in Categories :
        /\ start_generation(env, style, category)
        /\ LET out == StartOutputs(ret')
           IN  ui' = [ctx |-> c,
                      tabs |-> [ui.tabs EXCEPT ![c] =
                          With(out, [timer_active |-> out.session_id_state # ""])]]
        /\ UNCHANGED <<selVars, now>>

\* refresh_timer.tick in tab c: auto_refresh_status, and the chained step
\* that sets the timer from the text then on display
TimerTick(c, env) ==
    LET tab == ui.tabs[c]
        session_id == tab.session_id_state
    IN  /\ tab.timer_active
        /\ \E enabled \in BOOLEAN :
              IF ~enabled \/ session_id = ""
              THEN /\ ret' = [op |-> "auto_refresh_status", polled |-> FALSE]
                   /\ ui' = [ctx |-> c,
                             tabs |-> [ui.tabs EXCEPT ![c].timer_active =
                                          TimerStaysActive(tab.status_display)]]
                   /\ UNCHANGED <<active_jobs, jobs_file, aliases>>
              ELSE /\ check_async_video_status("app", env, session_id)
                   /\ aliases' = AliasesAfter("app", ret', FALSE)
                   /\ LET status == StatusText(ret')
                      IN  ui' = [ctx |-> c,
                                 tabs |-> [ui.tabs EXCEPT ![c] =
                                     [timer_active |-> TimerStaysActive(status),
                                      session_id_state |-> session_id,
                                      status_display |-> status]]]
        /\ UNCHANGED <<selVars, invocations, now>>

\* the selection that the handlers of tab c read and change: the one
\* self.selection_manager of the application object
SelectionOf(c) ==
    [items |-> selected_images, ranks |-> selection_order,
     count |-> Len(selected_images)]

UiInit ==
    ui = [ctx |-> "none",
          tabs |-> [c \in Contexts |->
                      [timer_active |-> FALSE, session_id_state |-> "",
                       status_display |-> <<>>]]]

Init ==
    /\ SelInit
    /\ JobInit
    /\ aliases = {}
    /\ UiInit
    /\ ret = [op |-> "init"]

\* the selection manager alone
SelNext == AddSelection \/ RemoveSelection \/ ClearAll
SpecSelection == Init /\ [][SelNext]_vars

\* what the surroundings of a VideoGenerator may do in a run: the outcomes of
\* _save_jobs, of the write of the video file, and the provider's answers
HealthyDisk == [saves |-> {"ok"}, writes |-> WriteOutcomes,
                responses |-> ProviderResponses,
                llm_kinds |-> {"raise", "text", "json"},
                requests |-> RequestImages, uuids |-> SessionIds, llm_idx |-> "asked"]

\* one VideoGenerator (the app's) on a disk that takes every save
Next == StartGeneration("app", HealthyDisk) \/ CheckStatus("app", HealthyDisk)
Spec == Init /\ [][Next]_vars

\* the provider's answers with one way for the fetch to go
PlainResponses ==
    {[status |-> "InProgress"], [status |-> "Failed"],
     [status |-> "Completed", s3_uri |-> TRUE, objects |-> <<"output.mp4">>,
      inline |-> FALSE]}

\* a disk on which _save_jobs can fail, and a process that can be killed in it
FaultyDisk == [saves |-> SaveOutcomes \cup CrashPoints, writes |-> {"ok"},
               responses |-> PlainResponses, llm_kinds |-> {"json"},
               requests |-> {<<1, 2>>}, uuids |-> SessionIds, llm_idx |-> "asked"]

\* one VideoGenerator whose saves can fail and which can be started again
NextDisk ==
    \/ StartGeneration("app", FaultyDisk)
    \/ CheckStatus("app", FaultyDisk)
    \/ Restart("app")
SpecDisk == Init /\ [][NextDisk]_vars

SharedFile == [saves |-> {"ok"}, writes |-> {"ok"},
               responses |-> PlainResponses \ {[status |-> "Failed"]},
               llm_kinds |-> {"json"},
               requests |-> {<<1, 2>>}, uuids |-> SessionIds, llm_idx |-> "asked"]

\* two processes on one jobs.json: the app, and check_status.py, which
\* constructs its own VideoGenerator and polls the jobs it finds
NextResume ==
    \/ StartGeneration("app", SharedFile)
    \/ CheckStatus("app", SharedFile)
    \/ Restart("cli")
    \/ CheckStatus("cli", SharedFile)
SpecResume == Init /\ [][NextResume]_vars

\* the app: the selection, the submit of the selection and the poll, with
\* every save succeeding
AppEnv == [saves |-> {"ok"}, writes |-> {"ok"},
           responses |-> PlainResponses \ {[status |-> "Failed"]},
           llm_kinds |-> {"json"}, requests |-> {}, uuids |-> {"s1"}, llm_idx |-> "asked"]

NextApp ==
    \/ AddSelection
    \/ RemoveSelection
    \/ ClearAll
    \/ AppStartGeneration(AppEnv)
    \/ CheckStatus("app", AppEnv)
SpecApp == Init /\ [][NextApp]_vars

\* one generator given a two-image list, and a language model whose JSON
\* answer carries any image_index values
FreeIndexes == [saves |-> {"ok"}, writes |-> {"ok"},
                responses |-> {[status |-> "InProgress"]},
                llm_kinds |-> {"text", "json"},
                requests |-> {<<1, 2>>}, uuids |-> {"s1"}, llm_idx |-> "any"]

NextShots ==
    \/ StartGeneration("app", FreeIndexes)
    \/ CheckStatus("app", FreeIndexes)

SpecShots == Init /\ [][NextShots]_vars

\* what list_objects_v2 can return for a finished job, in key order
FallbackListings ==
    {<<>>, <<"manifest.json">>, <<"manifest.json", "video.mp4">>,
     <<"clip.mp4", "manifest.json", "video.mp4">>,
     <<"manifest.json", "output.mp4">>, <<"clip.mp4", "output.mp4">>}

\* one generator and a provider whose finished jobs have these listings
FinishedJobs ==
    [saves |-> {"ok"}, writes |-> WriteOutcomes,
     responses |-> {[status |-> "InProgress"], [status |-> "Failed"]} \cup
        {[status |-> "Completed", s3_uri |-> TRUE, objects |-> o,
          inline |-> FALSE] : o \in FallbackListings},
     llm_kinds |-> {"json"}, requests |-> {<<1, 2>>}, uuids |-> {"s1"},
     llm_idx |-> "asked"]

NextFetch ==
    \/ StartGeneration("app", FinishedJobs)
    \/ CheckStatus("app", FinishedJobs)

SpecFetch == Init /\ [][NextFetch]_vars

\* a provider that may still be working, or report the end of the job with
\* or without a video that can be fetched, and a disk on which the write of
\* the video may fail
Polling ==
    [saves |-> {"ok"}, writes |-> WriteOutcomes,
     responses |-> PlainResponses \cup
        {[status |-> "raise"],
         [status |-> "Completed", s3_uri |-> TRUE,
          objects |-> <<"manifest.json">>, inline |-> FALSE]},
     llm_kinds |-> {"json"}, requests |-> {<<1, 2>>}, uuids |-> SessionIds,
     llm_idx |-> "asked"]

\* the provider reports the end of the job, the video can be fetched and
\* written
Settled ==
    [Polling EXCEPT !.writes = {"ok"},
                    !.responses = PlainResponses \ {[status |-> "InProgress"]}]

\* a poll of session_id that meets the settled provider
PollSettled(session_id) ==
    /\ session_id \in DOMAIN active_jobs["app"]
    /\ check_async_video_status("app", Settled, session_id)
    /\ aliases' = AliasesAfter("app", ret', FALSE)
    /\ UNCHANGED <<selVars, invocations, now, ui>>

NextLive ==
    \/ StartGeneration("app", Polling)
    \/ CheckStatus("app", Polling)

\* the caller keeps polling every session, and the provider and the disk
\* settle: a poll that meets them settled is not put off for ever
SpecLive ==
    /\ Init
    /\ [][NextLive]_vars
    /\ \A session_id \in SessionIds : WF_vars(PollSettled(session_id))

\* one browser tab in which only the first image is clicked, and a provider
\* and a disk with every kind of answer
TimerEnv ==
    [saves |-> {"ok"}, writes |-> WriteOutcomes,
     responses |-> PlainResponses \cup
                      {[status |-> "raise"], [status |-> "Submitted"]},
     llm_kinds |-> {"json"}, requests |-> {}, uuids |-> SessionIds,
     llm_idx |-> "asked"]

NextTimer ==
    \/ ImageClickOn("tab1", 1)
    \/ StartClick("tab1", TimerEnv)
    \/ TimerTick("tab1", TimerEnv)

SpecTimer == Init /\ [][NextTimer]_vars

\* two browser tabs on the one application
TabsEnv == [saves |-> {"ok"}, writes |-> {"ok"},
            responses |-> {[status |-> "InProgress"]},
            llm_kinds |-> {"json"}, requests |-> {}, uuids |-> {"s1"},
            llm_idx |-> "asked"]

NextTabs ==
    \E c \in Contexts :
        \/ ImageClick(c)
        \/ CategoryChange(c)
        \/ StartClick(c, TabsEnv)

SpecTabs == Init /\ [][NextTabs]_vars

(***************************************************************************)
(* Properties of the selection manager (checked under SpecSelection)        *)
(***************************************************************************)
Ranks(order) == {order[p] : p \in DOMAIN order}

NoDuplicates(s) == \A i, j \in DOMAIN s : i # j => s[i] # s[j]

\* C1: in every reachable state the list and the rank map have the same
\* size, the list holds no item twice, the ranks are exactly 1..len(list),
\* and the list is no longer than max_selections.
C1_SelectionInvariant ==
    /\ Len(selected_images) = Cardinality(DOMAIN selection_order)
    /\ NoDuplicates(selected_images)
    /\ Ranks(selection_order) = 1..Len(selected_images)
    /\ Len(selected_images) <= max_selections

\* a removal has just left two items behind
C1_Witness ==
    /\ ret.op = "remove_selection" /\ ret.ok
    /\ Len(selected_images) = 2

\* C2: a successful remove_selection(x) moves every remaining rank above x's
\* down by one, keeps every other remaining rank, leaves the ranks 1..count,
\* and keeps the relative order of the remaining items in get_ordered_images().
C2_RemoveCompactsRanks ==
    [][(ret'.op = "remove_selection" /\ ret'.ok) =>
        LET x == ret'.arg
            before == get_ordered_images.items
            after == get_ordered_images'.items
        IN  /\ x \in DOMAIN selection_order
            /\ DOMAIN selection_order' = (DOMAIN selection_order) \ {x}
            /\ \A y \in (DOMAIN selection_order) \ {x} :
                  selection_order'[y] =
                      IF selection_order[y] > selection_order[x]
                      THEN selection_order[y] - 1
                      ELSE selection_order[y]
            /\ Ranks(selection_order') = 1..Len(after)
            /\ Range(after) = Range(before) \ {x}
            /\ \A y, z \in Range(after) :
                  IndexOf(before, y) < IndexOf(before, z)
                      => IndexOf(after, y) < IndexOf(after, z)]_vars

\* add 1, 2, 3 then remove 2: the list is [1, 3] with ranks 1 and 2
C2_Witness ==
    /\ ret.op = "remove_selection" /\ ret.ok /\ ret.arg = 2
    /\ get_ordered_images.items = <<1, 3>>
    /\ selection_order[1] = 1 /\ selection_order[3] = 2

\* C5: add_selection on a selection that holds max_selections items fails
\* with the capacity outcome and changes neither the list, the rank map nor
\* next_order.
C5_AddAtCapacityRejected ==
    [][(ret'.op = "add_selection" /\ Len(selected_images) >= max_selections) =>
        /\ ~ret'.ok
        /\ ret'.msg = "CapacityExceeded"
        /\ UNCHANGED selVars]_vars

\* an add has just been refused on a full selection
C5_Witness ==
    /\ ret.op = "add_selection" /\ ~ret.ok /\ ret.msg = "CapacityExceeded"
    /\ Len(selected_images) = max_selections
    /\ ret.arg \notin Range(selected_images)

\* C6 as claimed: at any count, add_selection of an item that is already
\* selected fails with AlreadySelected and changes nothing.
C6_DuplicateAddAlreadySelected ==
    [][(ret'.op = "add_selection" /\ ret'.arg \in DOMAIN selection_order) =>
        /\ ~ret'.ok
        /\ ret'.msg = "AlreadySelected"
        /\ UNCHANGED selVars]_vars

\* C6 amended: add_selection of an item that is already selected fails and
\* changes nothing; the outcome is AlreadySelected while the selection is
\* below capacity and the capacity outcome when it is full.
C6_DuplicateAddRejected ==
    [][(ret'.op = "add_selection" /\ ret'.arg \in DOMAIN selection_order) =>
        /\ ~ret'.ok
        /\ ret'.msg = IF Len(selected_images) >= max_selections
                      THEN "CapacityExceeded"
                      ELSE "AlreadySelected"
        /\ UNCHANGED selVars]_vars

\* an add of a selected item has just been refused as AlreadySelected
C6_Witness ==
    /\ ret.op = "add_selection" /\ ~ret.ok /\ ret.msg = "AlreadySelected"
    /\ ret.arg \in DOMAIN selection_order
    /\ Len(selected_images) >= 1

(***************************************************************************)
(* Properties of the job orchestrator (checked under Spec)                 *)
(***************************************************************************)
IsCheck(r) == r.op = "check_async_video_status"
IsStart(r) == r.op = "start_async_video_generation"

Terminal(status) == status \in {"completed", "failed"}

\* the status moves along started -> in_progress -> {completed | failed}
Forward(a, b) ==
    \/ a = b
    \/ a = "started" /\ b \in {"in_progress", "completed", "failed"}
    \/ a = "in_progress" /\ b \in {"completed", "failed"}

\* C3: a poll of a session whose record is completed or failed returns that
\* terminal status, leaves the table and jobs.json as they are, asks the
\* provider nothing and neither fetches nor writes the video.
C3_PollIdempotent ==
    [][(IsCheck(ret') /\ ret'.session_id \in DOMAIN active_jobs[ret'.g]
            /\ Terminal(active_jobs[ret'.g][ret'.session_id].status)) =>
        /\ ret'.status = active_jobs[ret'.g][ret'.session_id].status
        /\ ret'.calls = <<>>
        /\ UNCHANGED <<active_jobs, jobs_file>>]_vars

\* C4: across a poll no record leaves completed or failed, and none goes
\* back from in_progress to started.
C4_StatusOnlyForward ==
    [][IsCheck(ret') =>
        \A g \in Generators : \A sid \in DOMAIN active_jobs[g] :
            /\ sid \in DOMAIN active_jobs'[g]
            /\ Forward(active_jobs[g][sid].status, active_jobs'[g][sid].status)]_vars

\* the submit's provider calls: the one that raised, if one did
ProviderRaised(r) ==
    \/ "llm" \in DOMAIN r /\ call_claude_sonnet(r.images, r.llm).raised
    \/ "nova" \in DOMAIN r /\ r.nova = "raise"

ValidSelection(images) ==
    /\ Len(images) \in 1..MaxShots
    /\ \A i \in DOMAIN images : path_exists(images[i])

\* C7: a submit of no image, of more than 8 images or of a path that does
\* not exist fails with the validation's error before any call goes out and
\* stores nothing; a submit of 1 to 8 existing images whose provider calls
\* succeed returns success with the session_id its record is stored under.
C7_SubmitValidation ==
    [][IsStart(ret') =>
        /\ ~ValidSelection(ret'.images) =>
              /\ ret'.status = "error"
              /\ ret'.error \in {"NoImages", "TooManyImages", "FileNotFound"}
              /\ ret'.calls = <<>>
              /\ UNCHANGED <<active_jobs, jobs_file, invocations>>
        /\ (ValidSelection(ret'.images) /\ ~ProviderRaised(ret')) =>
              /\ ret'.status = "success"
              /\ ret'.session_id \in SessionIds
              /\ ret'.session_id \in DOMAIN active_jobs'[ret'.g]
              /\ active_jobs'[ret'.g][ret'.session_id].images = ret'.images]_vars

\* a submit of nine images has just been refused, with one job in the table
C7_Witness ==
    /\ IsStart(ret) /\ Len(ret.images) = MaxShots + 1
    /\ ret.status = "error" /\ ret.error = "TooManyImages"
    /\ active_jobs["app"] # EmptyDict

\* the provider says Completed and the video cannot be fetched
FetchFails(resp) ==
    /\ resp.status = "Completed"
    /\ IF resp.s3_uri
       THEN \A i \in DOMAIN resp.objects : ~EndsWithMp4(resp.objects[i])
       ELSE ~resp.inline

\* C8 as claimed: when the provider says Completed and the fetch fails, the
\* poll reports an error, does not complete the record, and the record is
\* in_progress afterwards.
C8_FetchFailureLeavesInProgress ==
    [][(IsCheck(ret') /\ "resp" \in DOMAIN ret' /\ FetchFails(ret'.resp)) =>
        /\ ret'.status \in {"error", "unknown"}
        /\ active_jobs'[ret'.g][ret'.session_id].status = "in_progress"]_vars

\* C8 amended: when the provider says Completed and the fetch fails, the
\* poll returns the fetch error under the status 'unknown' and leaves the
\* table and jobs.json exactly as they were, so that the record keeps the
\* status it had and the next poll fetches again.
C8_FetchFailureLeavesRecord ==
    [][(IsCheck(ret') /\ "resp" \in DOMAIN ret' /\ FetchFails(ret'.resp)) =>
        /\ ret'.status = "unknown"
        /\ ret'.message \in {"NoFilesFound", "NoVideoFile", "NoVideoData"}
        /\ "write_video" \notin Range(ret'.calls)
        /\ UNCHANGED <<active_jobs, jobs_file>>]_vars

\* a poll of an in_progress record has just met an empty output location
C8_Witness ==
    /\ IsCheck(ret) /\ "resp" \in DOMAIN ret
    /\ ret.resp.status = "Completed" /\ ret.resp.s3_uri /\ ret.resp.objects = <<>>
    /\ ret.status = "unknown" /\ ret.message = "NoFilesFound"
    /\ active_jobs[ret.g][ret.session_id].status = "in_progress"

\* C9: a submit whose shot-description call or whose Nova Reel start call
\* raises returns an error and changes neither the table nor jobs.json.
C9_FailedSubmitCreatesNothing ==
    [][(IsStart(ret') /\ ProviderRaised(ret')) =>
        /\ ret'.status = "error"
        /\ ret'.error \in {"ClaudeFailed", "NovaReelFailed"}
        /\ "session_id" \notin DOMAIN ret'
        /\ UNCHANGED <<active_jobs, jobs_file>>]_vars

\* the Nova Reel start call has just raised, with one job in the table
C9_Witness ==
    /\ IsStart(ret) /\ "nova" \in DOMAIN ret /\ ret.nova = "raise"
    /\ ret.status = "error"
    /\ active_jobs["app"] # EmptyDict

\* C10: a poll of a session_id that is not in the table fails with the
\* unknown-session error, asks the provider nothing and changes neither the
\* table nor jobs.json.
C10_UnknownSession ==
    [][(IsCheck(ret') /\ ret'.session_id \notin DOMAIN active_jobs[ret'.g]) =>
        /\ ret'.status = "error"
        /\ ret'.message = "UnknownSession"
        /\ ret'.calls = <<>>
        /\ UNCHANGED <<active_jobs, jobs_file>>]_vars

\* an unknown session has just been polled, with another job in the table
C10_Witness ==
    /\ IsCheck(ret) /\ ret.status = "error" /\ ret.message = "UnknownSession"
    /\ ret.session_id \notin DOMAIN active_jobs[ret.g]
    /\ active_jobs[ret.g] # EmptyDict

RecordStatuses == {"started", "in_progress", "completed", "failed"}

\* the status call raised, or its answer carries a status that is not one of
\* Completed, InProgress, Failed
Unparseable(resp) == resp.status \notin {"Completed", "InProgress", "Failed"}

\* every record, in memory and in jobs.json, has one of the four statuses
StoredStatusesKnown ==
    /\ \A g \in Generators : \A sid \in DOMAIN active_jobs[g] :
          active_jobs[g][sid].status \in RecordStatuses
    /\ \A sid \in DOMAIN _load_jobs(jobs_file) :
          _load_jobs(jobs_file)[sid].status \in RecordStatuses

\* C11: a poll whose status call raises, or whose answer is not one of the
\* expected statuses, returns the status 'unknown' and leaves the table and
\* jobs.json exactly as they were; and in every reachable state no record,
\* in memory or in jobs.json, has the status 'unknown'.
C11_UnparseableLeavesRecord ==
    /\ [][(IsCheck(ret') /\ "resp" \in DOMAIN ret' /\ Unparseable(ret'.resp)) =>
            /\ ret'.status = "unknown"
            /\ UNCHANGED <<active_jobs, jobs_file>>]_vars
    /\ []StoredStatusesKnown

\* the status call has just raised on the poll of an in_progress record
C11_Witness ==
    /\ IsCheck(ret) /\ "resp" \in DOMAIN ret /\ ret.resp.status = "raise"
    /\ ret.status = "unknown" /\ ret.message = "GetResultError"
    /\ active_jobs[ret.g][ret.session_id].status = "in_progress"

\* a record has video_path exactly when it is completed and error_message
\* exactly when it is failed
ArtifactMatchesStatus(job_info) ==
    /\ ("video_path" \in DOMAIN job_info) <=> (job_info.status = "completed")
    /\ ("error_message" \in DOMAIN job_info) <=> (job_info.status = "failed")

\* C12: in every reachable state every record, in memory and in jobs.json,
\* has video_path if and only if its status is completed and error_message
\* if and only if its status is failed.
C12_ArtifactIffCompleted ==
    /\ \A g \in Generators : \A sid \in DOMAIN active_jobs[g] :
          ArtifactMatchesStatus(active_jobs[g][sid])
    /\ \A sid \in DOMAIN _load_jobs(jobs_file) :
          ArtifactMatchesStatus(_load_jobs(jobs_file)[sid])

\* C20: remove_selection of an item that is not selected fails with the
\* NotSelected outcome and changes neither the list, the rank map nor
\* next_order.
C20_RemoveNotSelected ==
    [][(ret'.op = "remove_selection" /\ ret'.arg \notin DOMAIN selection_order) =>
        /\ ~ret'.ok
        /\ ret'.msg = "NotSelected"
        /\ UNCHANGED selVars]_vars

\* the removal of an item that is not selected has just been refused, with
\* two other items selected
C20_Witness ==
    /\ ret.op = "remove_selection" /\ ~ret.ok /\ ret.msg = "NotSelected"
    /\ ret.arg \notin Range(selected_images)
    /\ Len(selected_images) = 2

\* C19: a successful submit stores its record under a session_id that was
\* not a key of the table before the call; the table gains exactly that key
\* and every record it held stays as it was.
C19_FreshSessionId ==
    [][(IsStart(ret') /\ ret'.status = "success") =>
        LET before == active_jobs[ret'.g]
            after == active_jobs'[ret'.g]
        IN  /\ ret'.session_id \notin DOMAIN before
            /\ DOMAIN after = (DOMAIN before) \cup {ret'.session_id}
            /\ Cardinality(DOMAIN after) = Cardinality(DOMAIN before) + 1
            /\ \A sid \in DOMAIN before : after[sid] = before[sid]]_vars

(***************************************************************************)
(* Properties of the job store (checked under SpecResume and SpecDisk)      *)
(***************************************************************************)
\* the provider says Completed, the video is fetched and written
Completes(r) ==
    /\ "resp" \in DOMAIN r /\ r.resp.status = "Completed" /\ ~FetchFails(r.resp)
    /\ "write" \in DOMAIN r /\ r.write = "ok"

\* C13: a VideoGenerator constructed on a readable jobs.json holds exactly
\* the records of the file; and a poll of a record it holds as in_progress,
\* answered Completed with the video fetched and written, asks the provider
\* with the record's stored job_id, makes no submission, and leaves the
\* record completed in memory and in jobs.json.
C13_ResumeFromSnapshot ==
    /\ [][(ret'.op = "__init__" /\ jobs_file.kind = "json") =>
            /\ active_jobs'[ret'.g] = jobs_file.jobs
            /\ UNCHANGED <<jobs_file, invocations>>]_vars
    /\ [][(IsCheck(ret') /\ Completes(ret')
                /\ active_jobs[ret'.g][ret'.session_id].status = "in_progress") =>
            LET g == ret'.g
                sid == ret'.session_id
            IN  /\ ret'.status = "completed"
                /\ ret'.job_id = active_jobs[g][sid].job_id
                /\ "start_async_nova_reel" \notin Range(ret'.calls)
                /\ invocations' = invocations
                /\ active_jobs'[g][sid].status = "completed"
                /\ active_jobs'[g][sid].job_id = active_jobs[g][sid].job_id
                /\ jobs_file'.kind = "json"
                /\ jobs_file'.jobs[sid] = active_jobs'[g][sid]]_vars

\* check_status.py, which never submits, has just completed a record that
\* it held as in_progress; the app submitted it and still holds it as
\* in_progress; the provider has been given one job
C13_Witness ==
    /\ IsCheck(ret) /\ ret.g = "cli" /\ ret.status = "completed"
    /\ ret.was = "in_progress"
    /\ active_jobs["cli"][ret.session_id].status = "completed"
    /\ active_jobs["app"][ret.session_id].status = "in_progress"
    /\ active_jobs["cli"][ret.session_id].job_id = active_jobs["app"][ret.session_id].job_id
    /\ invocations = 1

\* a submit or a poll that returned after it had changed a record and called
\* _save_jobs
Mutated(r) ==
    \/ IsStart(r) /\ r.status = "success"
    \/ IsCheck(r) /\ r.status \in {"completed", "in_progress", "failed"}

\* C14: after every submit or poll that changed a record, jobs.json is
\* readable and holds exactly the table the VideoGenerator has in memory.
C14_FileEqualsMemory ==
    [][Mutated(ret') =>
        /\ jobs_file'.kind = "json"
        /\ jobs_file'.jobs = active_jobs'[ret'.g]]_vars

\* C15: a submit or a poll whose write of jobs.json fails returns an error,
\* and leaves the table in memory and the table in jobs.json as they were.
C15_SaveFailureSurfaced ==
    [][((IsStart(ret') \/ IsCheck(ret'))
            /\ "save" \in DOMAIN ret' /\ ret'.save # "ok") =>
        /\ ret'.status = "error"
        /\ UNCHANGED active_jobs
        /\ _load_jobs(jobs_file') = _load_jobs(jobs_file)]_vars

\* C16: when the process is killed inside _save_jobs, _load_jobs of the
\* restarted process returns the table that was on disk before or the table
\* that was being stored.
C16_CrashKeepsRecords ==
    [][ret'.op = "killed_in_save" =>
        \/ _load_jobs(jobs_file') = _load_jobs(jobs_file)
        \/ _load_jobs(jobs_file') = ret'.storing]_vars

\* C17: a submit or a poll of one session, by either process, leaves the
\* record of every other session in jobs.json as it was: none is lost and
\* none goes back to an earlier state.
C17_SessionsIndependent ==
    [][((IsStart(ret') /\ ret'.status = "success") \/ (IsCheck(ret') /\ "resp" \in DOMAIN ret')) =>
        \A sid \in (DOMAIN _load_jobs(jobs_file)) \ {ret'.session_id} :
            /\ sid \in DOMAIN _load_jobs(jobs_file')
            /\ _load_jobs(jobs_file')[sid] = _load_jobs(jobs_file)[sid]]_vars

(***************************************************************************)
(* Properties of the app (checked under SpecApp)                            *)
(***************************************************************************)
IsSelectionOp(r) == r.op \in {"add_selection", "remove_selection", "clear_all"}

\* C18: a successful submit of the selection stores the selected images in
\* their order, and no later add_selection, remove_selection or clear_all
\* changes a record of the table or jobs.json: the images of a submitted job
\* stay what they were at the submit.
C18_SubmitByValue ==
    /\ [][(IsStart(ret') /\ ret'.status = "success") =>
            /\ active_jobs'["app"][ret'.session_id].images = selected_images
            /\ jobs_file'.jobs[ret'.session_id].images = selected_images]_vars
    /\ [][IsSelectionOp(ret') => UNCHANGED <<active_jobs, jobs_file>>]_vars

\* images 1 and 2 were submitted, then 2 was removed from the selection: the
\* record still lists both, in memory and in jobs.json
C18_Witness ==
    /\ ret.op = "remove_selection" /\ ret.ok /\ ret.arg = 2
    /\ selected_images = <<1>>
    /\ "s1" \in DOMAIN active_jobs["app"]
    /\ active_jobs["app"]["s1"].images = <<1, 2>>
    /\ jobs_file.kind = "json" /\ jobs_file.jobs["s1"].images = <<1, 2>>

(***************************************************************************)
(* Further properties of the selection manager (checked under               *)
(* SpecSelection)                                                          *)
(***************************************************************************)
\* C21: clear_all succeeds from any state, reports how many items it
\* removed, leaves the list and the rank map empty and next_order at 1; the
\* successful add_selection that follows it gives its item rank 1.
C21_ClearAllResets ==
    /\ [][ret'.op = "clear_all" =>
            /\ ret'.ok /\ ret'.n = Len(selected_images)
            /\ selected_images' = <<>>
            /\ selection_order' = EmptyDict
            /\ next_order' = 1]_vars
    /\ [][(ret.op = "clear_all" /\ ret'.op = "add_selection" /\ ret'.ok) =>
            /\ selection_order'[ret'.arg] = 1
            /\ selected_images' = <<ret'.arg>>]_vars

\* a full selection has just been cleared
C21_Witness ==
    /\ ret.op = "clear_all" /\ ret.n = max_selections
    /\ selected_images = <<>> /\ selection_order = EmptyDict /\ next_order = 1

\* C22: in every reachable state the item at position i of
\* get_ordered_images() has rank i in selection_order; and a successful
\* add_selection puts its item at the end of that list with rank count + 1.
C22_OrderedByRank ==
    /\ [](\A i \in DOMAIN get_ordered_images.items :
            /\ get_ordered_images.items[i] \in DOMAIN selection_order
            /\ selection_order[get_ordered_images.items[i]] = i)
    /\ [][(ret'.op = "add_selection" /\ ret'.ok) =>
            LET count == Len(get_ordered_images.items)
            IN  /\ get_ordered_images'.items =
                      Append(get_ordered_images.items, ret'.arg)
                /\ selection_order'[ret'.arg] = count + 1]_vars

\* 2 was selected, then 3, then 1, and 3 was removed: the list is [2, 1]
C22_Witness ==
    /\ ret.op = "remove_selection" /\ ret.ok /\ ret.arg = 3
    /\ get_ordered_images.items = <<2, 1>>
    /\ selection_order[2] = 1 /\ selection_order[1] = 2

\* C29: a successful add_selection(x) followed at once by
\* remove_selection(x) leaves the list, the rank map and next_order exactly
\* as they were before the add.
C29_AddRemoveRoundTrip ==
    [][(ret.op = "add_selection" /\ ret.ok
            /\ ret'.op = "remove_selection" /\ ret'.arg = ret.arg) =>
        /\ ret'.ok
        /\ <<selected_images', selection_order', next_order'>> = ret.before]_vars

\* 3 has just been removed again from a selection that held 1 and 2
C29_Witness ==
    /\ ret.op = "remove_selection" /\ ret.ok /\ ret.arg = 3
    /\ selected_images = <<1, 2>> /\ next_order = 3
    /\ selection_order[1] = 1 /\ selection_order[2] = 2

(***************************************************************************)
(* C23: the k-th shot sent to the provider carries the k-th image of the    *)
(* list passed to submit, whatever image_index values the shot descriptions *)
(* of the language model carry.                                             *)
(***************************************************************************)
C23_ShotOrderIsImageOrder ==
    [][("nova" \in DOMAIN ret' /\ ret'.op = "start_async_video_generation") =>
            LET shots == call_claude_sonnet(ret'.images, ret'.llm).shots
            IN  \A k \in DOMAIN shots : shots[k] = ret'.images[k]]_vars

(***************************************************************************)
(* C24: when the provider reports completion and output.mp4 is not under    *)
(* the job's output location, the first listed object ending with .mp4 is   *)
(* fetched; the fetch raises only for an empty listing or a listing without *)
(* an .mp4, and the poll then changes nothing: the absence of output.mp4    *)
(* never makes the record failed.                                          *)
(***************************************************************************)
ScansListing(r) ==
    /\ IsCheck(r)
    /\ "resp" \in DOMAIN r
    /\ r.resp.status = "Completed"
    /\ r.resp.s3_uri
    /\ "output.mp4" \notin Range(r.resp.objects)

C24_FallbackScan ==
    [][ScansListing(ret') =>
        LET objects == ret'.resp.objects
            mp4s == {i \in DOMAIN objects : EndsWithMp4(objects[i])}
            job_info == active_jobs'[ret'.g][ret'.session_id]
        IN  /\ "s3_list_objects" \in Range(ret'.calls)
            /\ mp4s # {} =>
                    \/ /\ ret'.status = "completed"
                       /\ \E i \in mp4s : /\ \A j \in mp4s : i <= j
                                          /\ ret'.video_data = objects[i]
                       /\ job_info.status = "completed"
                    \/ /\ ret'.status = "error"
                       /\ ret'.write = "fail"
                       /\ UNCHANGED <<active_jobs, jobs_file>>
            /\ mp4s = {} =>
                    /\ ret'.status = "unknown"
                    /\ ret'.message =
                          (IF objects = <<>> THEN "NoFilesFound" ELSE "NoVideoFile")
                    /\ UNCHANGED <<active_jobs, jobs_file>>
            /\ job_info.status = "failed" => ret'.was = "failed"]_vars

C24_Witness ==
    /\ ScansListing(ret)
    /\ ret.resp.objects = <<"clip.mp4", "manifest.json", "video.mp4">>
    /\ ret.status = "completed"
    /\ ret.video_data = "clip.mp4"
    /\ ret.was = "started"
    /\ active_jobs[ret.g][ret.session_id].status = "completed"

(***************************************************************************)
(* C25: constructing a VideoGenerator succeeds whatever jobs.json holds;    *)
(* when the file is missing or cannot be parsed the new process starts with *)
(* an empty job table, and the constructor does not write the file.         *)
(***************************************************************************)
C25_ConstructorToleratesStore ==
    [][ret'.op \in {"__init__", "killed_in_save"} =>
        /\ jobs_file'.kind # "json" => active_jobs'[ret'.g] = EmptyDict
        /\ jobs_file'.kind = "json" => active_jobs'[ret'.g] = jobs_file'.jobs
        /\ ret'.op = "__init__" => UNCHANGED jobs_file]_vars

C25_Witness ==
    /\ ret.op = "__init__"
    /\ jobs_file.kind = "corrupt"
    /\ active_jobs[ret.g] = EmptyDict
    /\ invocations > 0

(***************************************************************************)
(* C26: every browser tab has a selection of its own: an image click, a     *)
(* category change or a start in one tab leaves the items, the ranks and    *)
(* the count that every other tab works on as they were.                    *)
(***************************************************************************)
C26_SelectionPerContext ==
    [][\A c \in Contexts :
          ui'.ctx # c => SelectionOf(c)' = SelectionOf(c)]_vars

(***************************************************************************)
(* C27: a poll of session s leaves the keys of the job table, the record of *)
(* every other session, and job_id, images, style, category and created_at  *)
(* of the record of s as they were; a key comes into the table only by a    *)
(* successful submit, and neither submit nor poll takes a key out.          *)
(***************************************************************************)
FixedFields == {"job_id", "images", "style", "category", "created_at"}

C27_PollFrame ==
    /\ [][IsCheck(ret') =>
            LET before == active_jobs[ret'.g]
                after == active_jobs'[ret'.g]
            IN  /\ DOMAIN after = DOMAIN before
                /\ \A t \in DOMAIN before :
                      IF t = ret'.session_id
                      THEN \A f \in FixedFields : after[t][f] = before[t][f]
                      ELSE after[t] = before[t]]_vars
    /\ [][\A g \in Generators :
            /\ (IsCheck(ret') \/ IsStart(ret')) =>
                    DOMAIN active_jobs[g] \subseteq DOMAIN active_jobs'[g]
            /\ DOMAIN active_jobs'[g] \ DOMAIN active_jobs[g] # {} =>
                    /\ IsStart(ret') /\ ret'.status = "success" /\ ret'.g = g
                    /\ DOMAIN active_jobs'[g] \ DOMAIN active_jobs[g] =
                           {ret'.session_id}]_vars

C27_Witness ==
    /\ IsCheck(ret)
    /\ ret.status = "completed"
    /\ ret.was = "started"
    /\ DOMAIN active_jobs[ret.g] = SessionIds
    /\ \A t \in SessionIds \ {ret.session_id} :
          active_jobs[ret.g][t].status = "in_progress"

(***************************************************************************)
(* C28: when every session keeps being polled and the polls come to meet a  *)
(* provider that reports the end of the job and a video that can be fetched *)
(* and written, the record of every submitted session becomes completed or  *)
(* failed; until then its status is started or in_progress, and no record   *)
(* leaves the table.                                                       *)
(***************************************************************************)
Submitted(session_id) == session_id \in DOMAIN active_jobs["app"]

Ended(session_id) ==
    /\ Submitted(session_id)
    /\ Terminal(active_jobs["app"][session_id].status)

C28_PollingEnds ==
    /\ \A session_id \in SessionIds : Submitted(session_id) ~> Ended(session_id)
    /\ [](\A session_id \in SessionIds :
            (Submitted(session_id) /\ ~Ended(session_id)) =>
                active_jobs["app"][session_id].status \in {"started", "in_progress"})
    /\ [][\A session_id \in SessionIds :
            Submitted(session_id) => Submitted(session_id)']_vars

C28_Witness ==
    /\ IsCheck(ret)
    /\ ret.status = "completed"
    /\ ret.was = "in_progress"
    /\ Ended(ret.session_id)
    /\ \E session_id \in SessionIds : Submitted(session_id) /\ ~Ended(session_id)

(***************************************************************************)
(* C30: the refresh timer of a tab becomes active only by a start that      *)
(* returned a session id; after a tick that polled it is active exactly     *)
(* when the poll shown is neither completed nor failed; so a tab that shows *)
(* a completed or failed poll has no active timer, and no tick polls from   *)
(* it.                                                                     *)
(***************************************************************************)
ShowsTerminal(c) ==
    \E r \in {[status |-> "completed"],
               [status |-> "failed", message |-> "GenerationFailed"]} :
        ui.tabs[c].status_display = StatusText(r)

=============================================================================
